---- MODULE Spec2Model ----
(***************************************************************************)
(* Page behaviour of script.js: the image-load gated initialization chain, *)
(* the lightbox controller, the scroll dispatcher, the horizontal scroll   *)
(* track and the countdown ticker.                                         *)
(*                                                                         *)
(* One action is one task of the browser's event loop: the handler that    *)
(* the event runs together with the microtasks (promise continuations) it  *)
(* leaves behind, which the loop drains before the next task.              *)
(***************************************************************************)
EXTENDS Integers, Sequences, FiniteSets, TLC

\* ---------------------------------------------------------------- bounds
\* The sizes of the two photo pools of populateRandomGallery, scaled down (the
\* source has 9 horizontal and 20 vertical photos). A pool shorter than the
\* slice exercises the loop's skipping of a missing slot.
NumHorizontal == 2
NumVertical == 1
\* The horizontal pool where the selection is checked on its own: no smaller
\* than the slice, as in the source, so that the five slots are filled.
FullHorizontal == 5
\* Layout metrics are drawn from 0..MaxWidth (and the spec's scenario values).
MaxWidth == 2
\* Scroll offsets are drawn from 0..MaxScroll (and one far offset).
MaxScroll == 3
\* The section's offsetTop is drawn from 0..MaxTop.
MaxTop == 1
\* Wall-clock readings up to MaxDays whole days before the target are drawn.
MaxDays == 1
\* The countdown's history counters stop counting here.
MaxTicks == 3

\* ------------------------------------------------------ program constants
MOBILE_BREAKPOINT == 768
\* shuffle(...).slice(0, 5) and for (let i = 0; i < 5; i++)
TakeCount == 5
\* The vertical pool where the selection is checked on its own: just the slice.
FullVertical == TakeCount
\* scrollPosition > 50
NavbarThreshold == 50
\* Math.abs(touch.clientX - startX) > 10
TouchThreshold == 10

\* ----------------------------------------------------------------- state
VARIABLES
    \* DOMContentLoaded handler: "loading" (not yet fired), "awaiting" (suspended
    \* at await populateRandomGallery()), "ready" (the try block has finished)
    phase,
    containerPresent,   \* document has .photo-scroll-inner
    missing,            \* the other elements the script looks up that the document lacks
    initError,          \* the handler's catch block has logged an error
    unhandledError,     \* history: an exception has left a listener or frame callback
    img,                \* load state of each rendered <img>, in document order
    rendered,           \* src of each rendered <img>
    \* lightbox (closure state of setupLightbox)
    lightboxSetup,      \* setupLightbox has run
    listeners,          \* the kinds of listener setupLightbox has attached
    imageSources,
    currentIndex,
    lightboxActive,     \* lightbox.classList.contains('active')
    lightboxImgSrc,     \* lightboxImg.src
    lastEvent,          \* history: the last lightbox event and the state it found
    \* touch handling of the gallery images (closure state of setupLightbox)
    isTouchDevice,      \* 'ontouchstart' in window
    touchTarget,        \* index of the image whose touchmove/touchend/touchcancel
                        \* listeners are on window, -1 when none are
    startX,
    startY,
    isDragging,
    finger,             \* <<clientX, clientY>> of the touch point
    strayed,            \* history: a touchmove of this gesture reported a position
                        \* more than 10px from its start in some axis
    \* scroll dispatcher
    isTicking,
    updateDue,          \* history: a scroll event has been heard and no
                        \* handleScrollEffects() has completed since
    frameQueue,         \* number of requestAnimationFrame callbacks queued
    \* viewport and layout metrics (read by the code, changed by the browser)
    scrollY,
    innerWidth,
    scrollWidth,        \* photoScrollInner.scrollWidth
    clientWidth,        \* photoScrollContainer.clientWidth
    offsetTop,          \* gallerySection.offsetTop
    \* horizontal scroll track
    trackSetup,         \* "none", "ready" (elements found), "aborted"
    horizontalScrollDistance,
    sectionHeight,      \* gallerySection.style.height
    containerPosition,  \* photoScrollContainer.style.position
    containerTop,       \* photoScrollContainer.style.top
    innerTransform,     \* photoScrollInner.style.transform
    recomputed,         \* history: <<scrollWidth, clientWidth>> of the layout
                        \* when updateDimensions last ran
    \* decorative scroll effects
    navbarScrolled,     \* navbar.classList.contains('scrolled')
    heroBackground,     \* hero.style.backgroundPosition
    countdownBackground, \* countdown.style.backgroundPosition
    \* countdown ticker
    timerActive,        \* the interval x has not been cleared
    slots,              \* text of #days, #hours, #minutes, #seconds
    timerDisplay,       \* content of #timer: "slots" or "expired"
    lastDistance,       \* weddingDate - now of the last tick
    ticksRun,           \* history: ticks run so far
    expiredSeen,        \* history: a tick has seen distance < 0
    expiredWrites,      \* history: times the expired message was written
    ticksAfterExpiry    \* history: ticks run after a tick saw distance < 0

galleryVars == <<phase, containerPresent, missing, img, rendered>>
errorVars == <<initError, unhandledError>>
lightboxState ==
    <<lightboxSetup, listeners, imageSources, currentIndex, lightboxActive, lightboxImgSrc>>
touchVars == <<isTouchDevice, touchTarget, startX, startY, isDragging, finger, strayed>>
lightboxVars == <<lightboxState, lastEvent, touchVars>>
dispatchVars == <<isTicking, updateDue, frameQueue>>

\* A requestAnimationFrame callback is queued.
framePending == frameQueue > 0
metricVars == <<scrollY, innerWidth, scrollWidth, clientWidth, offsetTop>>
effectVars == <<navbarScrolled, heroBackground, countdownBackground>>
countdownVars == <<timerActive, slots, timerDisplay, lastDistance, ticksRun,
                   expiredSeen, expiredWrites, ticksAfterExpiry>>
trackVars == <<trackSetup, horizontalScrollDistance, sectionHeight, containerPosition,
               containerTop, innerTransform, recomputed>>

\* ------------------------------------------------------------- document
\* The elements the script looks up, .photo-scroll-inner aside, by the names
\* of the variables that hold them.
Elements ==
    {"navbar", "hero", "countdown", "lightbox", "lightboxImg", "closeBtn", "prevBtn",
     "nextBtn", "gallerySection", "photoScrollContainer"}

\* The lookup of element e finds it.
Has(e) == e \notin missing

\* -------------------------------------------------------- JavaScript values
\* A JavaScript number that may be NaN.
Num(v) == [nan |-> FALSE, v |-> v]
NaN == [nan |-> TRUE, v |-> 0]

\* a + b
JsAdd(a, b) == IF a.nan \/ b.nan THEN NaN ELSE Num(a.v + b.v)

\* a % b: the sign of the dividend, NaN for a zero divisor
JsMod(a, b) ==
    IF a.nan \/ b.nan \/ b.v = 0 THEN NaN
    ELSE LET m == IF b.v < 0 THEN 0 - b.v ELSE b.v
         IN  IF a.v >= 0 THEN Num(a.v % m) ELSE Num(0 - ((0 - a.v) % m))

\* a < b and a >= b: false when either side is NaN
JsLt(a, b) == ~a.nan /\ ~b.nan /\ a.v < b.v
JsGe(a, b) == ~a.nan /\ ~b.nan /\ a.v >= b.v

Min(a, b) == IF a <= b THEN a ELSE b
Max(a, b) == IF a >= b THEN a ELSE b

\* An image URL: <<directory, file number>>. lightboxImg.src starts as NoSrc and
\* reads "undefined" after an assignment of undefined.
NoSrc == <<"", 0>>
UndefinedSrc == <<"undefined", 0>>

\* ------------------------------------------------------- gallery populator
\* [...Array(n)].map((_, i) => `${i + 1}.jpg`)
Pool(n) == [i \in 1..n |-> i]

\* array[i] = array[j] alone: half of the swap
SwapOverwrite(array, i, j) ==
    [k \in 1..Len(array) |-> IF k = i + 1 THEN array[j + 1] ELSE array[k]]

\* [array[i], array[j]] = [array[j], array[i]], i and j 0-based
Swap(array, i, j) ==
    [k \in 1..Len(array) |->
        IF k = i + 1 THEN array[j + 1] ELSE IF k = j + 1 THEN array[i + 1] ELSE array[k]]

\* The arrays shuffle(array) can return: the loop runs i from length-1 down to 1
\* and draws j = floor(random() * (i + 1)) from 0..i.
RECURSIVE shuffleFrom(_, _)
shuffleFrom(array, i) ==
    IF i <= 0 THEN {array}
    ELSE UNION {shuffleFrom(Swap(array, i, j), i - 1) : j \in 0..i}

shuffle(array) == shuffleFrom(array, Len(array) - 1)

\* array.slice(0, n)
Slice(array, n) == SubSeq(array, 1, Min(n, Len(array)))

\* The loop that builds finalPhotos, from index i on.
RECURSIVE interleave(_, _, _)
interleave(h, v, i) ==
    IF i >= TakeCount THEN <<>>
    ELSE (IF i < Len(h) THEN <<(<<"photos/horizontal", h[i + 1]>>)>> ELSE <<>>)
         \o (IF i < Len(v) THEN <<(<<"photos/vertical", v[i + 1]>>)>> ELSE <<>>)
         \o interleave(h, v, i + 1)

\* Every finalPhotos populateRandomGallery can build from pools of nh
\* horizontal and nv vertical photos.
SelectionsOf(nh, nv) ==
    {interleave(Slice(h, TakeCount), Slice(v, TakeCount), 0) :
        h \in shuffle(Pool(nh)), v \in shuffle(Pool(nv))}

Selections == SelectionsOf(NumHorizontal, NumVertical)

\* An image's promise is resolved: it was complete when observed, or its load or
\* error listener has run.
Settled(s) == s \in {"complete", "loaded", "errored"}

\* Promise.all(promises) is resolved.
AllSettled(images) == \A k \in 1..Len(images) : Settled(images[k])

\* ------------------------------------------------------------- lightbox
\* array[index], undefined when index is no index of the array
At(array, index) ==
    IF ~index.nan /\ index.v \in 0..(Len(array) - 1) THEN array[index.v + 1]
    ELSE UndefinedSrc

\* showImage(index) throws: the index passes the check and lightboxImg is null.
showImageThrows(index) ==
    /\ ~(JsLt(index, Num(0)) \/ JsGe(index, Num(Len(imageSources))))
    /\ ~Has("lightboxImg")

\* showImage keeping a 1-based currentIndex
showImageOffByOne(index) ==
    IF JsLt(index, Num(0)) \/ JsGe(index, Num(Len(imageSources))) \/ showImageThrows(index)
    THEN [src |-> lightboxImgSrc, idx |-> currentIndex]
    ELSE [src |-> At(imageSources, index), idx |-> JsAdd(index, Num(1))]

\* What showImage(index) leaves in lightboxImg.src and currentIndex: both as
\* they were when the index is rejected ('Invalid image index') or the
\* assignment to lightboxImg.src throws.
showImage(index) ==
    IF JsLt(index, Num(0)) \/ JsGe(index, Num(Len(imageSources))) \/ showImageThrows(index)
    THEN [src |-> lightboxImgSrc, idx |-> currentIndex]
    ELSE [src |-> At(imageSources, index), idx |-> index]

\* nextIndex without the modulo
nextIndexNoWrap == JsAdd(currentIndex, Num(1))

\* (currentIndex + 1) % imageSources.length
nextIndex == JsMod(JsAdd(currentIndex, Num(1)), Num(Len(imageSources)))

\* (currentIndex - 1 + imageSources.length) % imageSources.length
prevIndex ==
    JsMod(JsAdd(JsAdd(currentIndex, Num(0 - 1)), Num(Len(imageSources))),
          Num(Len(imageSources)))

openLightbox(index) ==
    /\ lightboxActive' = TRUE
    /\ lightboxImgSrc' = showImage(index).src
    /\ currentIndex' = showImage(index).idx
    /\ unhandledError' = (unhandledError \/ showImageThrows(index))
    /\ UNCHANGED <<lightboxSetup, listeners, imageSources>>

closeLightbox ==
    /\ lightboxActive' = FALSE
    /\ UNCHANGED <<lightboxSetup, listeners, imageSources, currentIndex, lightboxImgSrc,
                   unhandledError>>

showNextImage ==
    /\ lightboxImgSrc' = showImage(nextIndex).src
    /\ currentIndex' = showImage(nextIndex).idx
    /\ unhandledError' = (unhandledError \/ showImageThrows(nextIndex))
    /\ UNCHANGED <<lightboxSetup, listeners, imageSources, lightboxActive>>

showPrevImage ==
    /\ lightboxImgSrc' = showImage(prevIndex).src
    /\ currentIndex' = showImage(prevIndex).idx
    /\ unhandledError' = (unhandledError \/ showImageThrows(prevIndex))
    /\ UNCHANGED <<lightboxSetup, listeners, imageSources, lightboxActive>>

\* No handler of the lightbox runs.
NoHandler == UNCHANGED <<lightboxState, unhandledError>>

\* ----------------------------------------------- horizontal scroll track
\* Inline style values: <<text, pixels>>, <<"", 0>> when the property is unset.
Unset == <<"", 0>>
Auto == <<"auto", 0>>
CalcHeight(d) == <<"calc(100vh + px)", d>>
\* translateX(-npx); translateX(0px) is TranslateX(0)
TranslateX(n) == <<"translateX(-px)", n>>

TrackState ==
    [distance |-> horizontalScrollDistance, height |-> sectionHeight,
     position |-> containerPosition, top |-> containerTop,
     transform |-> innerTransform]

\* updateDimensions with the breakpoint itself taken for a wide viewport
updateDimensionsBelowOnly(s, width, sw, cw) ==
    IF width < MOBILE_BREAKPOINT
    THEN [distance |-> 0,
          height |-> IF s.height # Unset THEN Auto ELSE s.height,
          position |-> IF s.position # "" THEN "relative" ELSE s.position,
          top |-> s.top,
          transform |-> IF s.transform # Unset THEN TranslateX(0) ELSE s.transform]
    ELSE IF sw - cw > 0
    THEN [distance |-> sw - cw, height |-> CalcHeight(sw - cw),
          position |-> "sticky", top |-> "0", transform |-> s.transform]
    ELSE [distance |-> sw - cw, height |-> Auto,
          position |-> "relative", top |-> s.top, transform |-> s.transform]

\* updateDimensions with the track also built for an overflow of zero
updateDimensionsFromZero(s, width, sw, cw) ==
    IF width <= MOBILE_BREAKPOINT
    THEN [distance |-> 0,
          height |-> IF s.height # Unset THEN Auto ELSE s.height,
          position |-> IF s.position # "" THEN "relative" ELSE s.position,
          top |-> s.top,
          transform |-> IF s.transform # Unset THEN TranslateX(0) ELSE s.transform]
    ELSE IF sw - cw >= 0
    THEN [distance |-> sw - cw, height |-> CalcHeight(sw - cw),
          position |-> "sticky", top |-> "0", transform |-> s.transform]
    ELSE [distance |-> sw - cw, height |-> Auto,
          position |-> "relative", top |-> s.top, transform |-> s.transform]

\* updateDimensions with the overflow added to the distance held before
updateDimensionsAccumulating(s, width, sw, cw) ==
    IF width <= MOBILE_BREAKPOINT
    THEN [distance |-> 0,
          height |-> IF s.height # Unset THEN Auto ELSE s.height,
          position |-> IF s.position # "" THEN "relative" ELSE s.position,
          top |-> s.top,
          transform |-> IF s.transform # Unset THEN TranslateX(0) ELSE s.transform]
    ELSE IF s.distance + sw - cw > 0
    THEN [distance |-> s.distance + sw - cw, height |-> CalcHeight(s.distance + sw - cw),
          position |-> "sticky", top |-> "0", transform |-> s.transform]
    ELSE [distance |-> s.distance + sw - cw, height |-> Auto,
          position |-> "relative", top |-> s.top, transform |-> s.transform]

\* updateDimensions holding max(scrollWidth - containerWidth, 0)
updateDimensionsClamped(s, width, sw, cw) ==
    IF width <= MOBILE_BREAKPOINT
    THEN [distance |-> 0,
          height |-> IF s.height # Unset THEN Auto ELSE s.height,
          position |-> IF s.position # "" THEN "relative" ELSE s.position,
          top |-> s.top,
          transform |-> IF s.transform # Unset THEN TranslateX(0) ELSE s.transform]
    ELSE IF sw - cw > 0
    THEN [distance |-> sw - cw, height |-> CalcHeight(sw - cw),
          position |-> "sticky", top |-> "0", transform |-> s.transform]
    ELSE [distance |-> 0, height |-> Auto,
          position |-> "relative", top |-> s.top, transform |-> s.transform]

\* The track state updateDimensions leaves, from state s and the metrics it reads.
updateDimensions(s, width, sw, cw) ==
    IF width <= MOBILE_BREAKPOINT
    THEN [distance |-> 0,
          height |-> IF s.height # Unset THEN Auto ELSE s.height,
          position |-> IF s.position # "" THEN "relative" ELSE s.position,
          top |-> s.top,
          transform |-> IF s.transform # Unset THEN TranslateX(0) ELSE s.transform]
    ELSE IF sw - cw > 0
    THEN [distance |-> sw - cw, height |-> CalcHeight(sw - cw),
          position |-> "sticky", top |-> "0", transform |-> s.transform]
    ELSE [distance |-> sw - cw, height |-> Auto,
          position |-> "relative", top |-> s.top, transform |-> s.transform]

\* updateHorizontalScroll without the pin to the end of the track
updateHorizontalScrollUnpinned(s, elementFound, width, y, top) ==
    IF s.distance <= 0 \/ ~elementFound \/ width <= MOBILE_BREAKPOINT
    THEN s.transform
    ELSE LET scrollAmount == y - top
         IN  IF scrollAmount >= 0 THEN TranslateX(scrollAmount) ELSE TranslateX(0)

\* updateHorizontalScroll returning early on a narrow viewport only
updateHorizontalScrollAnytime(s, elementFound, width, y, top) ==
    IF width <= MOBILE_BREAKPOINT
    THEN s.transform
    ELSE LET scrollAmount == y - top
         IN  IF scrollAmount >= 0 /\ scrollAmount <= s.distance
             THEN TranslateX(scrollAmount)
             ELSE IF scrollAmount < 0 THEN TranslateX(0)
             ELSE TranslateX(s.distance)

\* photoScrollInner.style.transform after updateHorizontalScroll; elementFound
\* is the truthiness of gallerySection.
updateHorizontalScroll(s, elementFound, width, y, top) ==
    IF s.distance <= 0 \/ ~elementFound \/ width <= MOBILE_BREAKPOINT
    THEN s.transform
    ELSE LET scrollAmount == y - top
         IN  IF scrollAmount >= 0 /\ scrollAmount <= s.distance
             THEN TranslateX(scrollAmount)
             ELSE IF scrollAmount < 0 THEN TranslateX(0)
             ELSE TranslateX(s.distance)

ApplyTrack(s) ==
    /\ horizontalScrollDistance' = s.distance
    /\ sectionHeight' = s.height
    /\ containerPosition' = s.position
    /\ containerTop' = s.top
    /\ innerTransform' = s.transform

\* setupHorizontalScroll(): the three elements are looked up; with one missing
\* the setup warns and returns, else updateDimensions runs once.
setupHorizontalScroll ==
    IF Has("gallerySection") /\ Has("photoScrollContainer") /\ containerPresent
    THEN /\ trackSetup' = "ready"
         /\ ApplyTrack(updateDimensions(TrackState, innerWidth, scrollWidth, clientWidth))
         /\ recomputed' = <<scrollWidth, clientWidth>>
    ELSE /\ trackSetup' = "aborted"
         /\ UNCHANGED <<horizontalScrollDistance, sectionHeight, containerPosition,
                        containerTop, innerTransform, recomputed>>

\* setupLightbox() throws: the first addEventListener on a control that is null.
setupLightboxThrows ==
    Has("lightbox") /\ ~(Has("closeBtn") /\ Has("prevBtn") /\ Has("nextBtn"))

\* The listeners setupLightbox() attaches, in the order of its statements, up
\* to the first control that is null.
listenersAttached ==
    IF ~Has("lightbox") THEN {}
    ELSE IF ~Has("closeBtn") THEN {"image"}
    ELSE IF ~Has("prevBtn") THEN {"image", "close"}
    ELSE IF ~Has("nextBtn") THEN {"image", "close", "prev"}
    ELSE {"image", "close", "prev", "next", "backdrop", "keydown"}

\* setupLightbox(): with the lightbox element, the closure state over the
\* .scroll-photo images in the document and the listeners; without it, nothing.
setupLightbox(images) ==
    /\ lightboxSetup' = TRUE
    /\ listeners' = listenersAttached
    /\ imageSources' = (IF Has("lightbox") THEN images ELSE imageSources)
    /\ currentIndex' = Num(0)
    /\ UNCHANGED <<lightboxActive, lightboxImgSrc>>

\* ------------------------------------------------------ scroll dispatcher
\* The browser resizes the window or reflows the gallery.
MetricsChange(width, m, top) ==
    /\ <<width, m[1], m[2], top>> # <<innerWidth, scrollWidth, clientWidth, offsetTop>>
    /\ innerWidth' = width
    /\ scrollWidth' = m[1]
    /\ clientWidth' = m[2]
    /\ offsetTop' = top
    /\ UNCHANGED <<scrollY, galleryVars, errorVars, lightboxVars, dispatchVars, trackVars,
                   effectVars, countdownVars>>

\* The ResizeObserver on photoScrollContainer calls updateDimensions.
ResizeObserved ==
    /\ trackSetup = "ready"
    /\ ApplyTrack(updateDimensions(TrackState, innerWidth, scrollWidth, clientWidth))
    /\ recomputed' = <<scrollWidth, clientWidth>>
    /\ UNCHANGED <<trackSetup, galleryVars, errorVars, lightboxVars, dispatchVars,
                   metricVars, effectVars, countdownVars>>

\* Background positions: <<text, tenths of a pixel>>.
Parallax(tenths) == <<"center calc(50% + px)", tenths>>
Centered == <<"center center", 0>>

\* handleScrollEffects() throws: navbar.classList on null.
handleScrollEffectsThrows == ~Has("navbar")

\* handleScrollEffects(): navbar flag, the two parallax offsets (factors 0.5
\* and 0.3) of the sections that exist, then updateHorizontalScroll(); nothing
\* when the first statement throws.
handleScrollEffects ==
    IF handleScrollEffectsThrows
    THEN /\ unhandledError' = TRUE
         /\ UNCHANGED <<effectVars, trackVars>>
    ELSE /\ navbarScrolled' = (scrollY > NavbarThreshold)
         /\ heroBackground' = (IF Has("hero") THEN Parallax(scrollY * 5) ELSE heroBackground)
         /\ countdownBackground' =
                (IF ~Has("countdown") THEN countdownBackground
                 ELSE IF innerWidth > MOBILE_BREAKPOINT THEN Parallax(scrollY * 3)
                 ELSE Centered)
         /\ innerTransform' =
                updateHorizontalScroll(TrackState,
                                       trackSetup # "none" /\ Has("gallerySection"),
                                       innerWidth, scrollY, offsetTop)
         /\ UNCHANGED <<trackSetup, horizontalScrollDistance, sectionHeight,
                        containerPosition, containerTop, recomputed, unhandledError>>

\* the scroll listener without its guard
requestsFrameUnguarded == TRUE

\* if (!isTicking)
requestsFrame == ~isTicking

\* The window scrolls to offset y; the scroll listener (attached by the
\* DOMContentLoaded handler) requests one frame unless one is requested.
Scroll(y) ==
    /\ y # scrollY
    /\ scrollY' = y
    /\ updateDue' = (updateDue \/ phase # "loading")
    /\ IF phase # "loading" /\ requestsFrame
       THEN isTicking' = TRUE /\ frameQueue' = frameQueue + 1
       ELSE UNCHANGED <<isTicking, frameQueue>>
    /\ UNCHANGED <<innerWidth, scrollWidth, clientWidth, offsetTop>>
    /\ UNCHANGED <<galleryVars, initError, unhandledError, lightboxVars, trackVars,
                   effectVars, countdownVars>>

\* The requestAnimationFrame callback: handleScrollEffects(), then, unless
\* that threw, isTicking = false.
Frame ==
    /\ framePending
    /\ handleScrollEffects
    /\ isTicking' = (IF handleScrollEffectsThrows THEN isTicking ELSE FALSE)
    /\ updateDue' = (handleScrollEffectsThrows /\ updateDue)
    /\ frameQueue' = frameQueue - 1
    /\ UNCHANGED <<galleryVars, initError, lightboxVars, metricVars, countdownVars>>

\* --------------------------------------------------- initialization chain
\* The code after await populateRandomGallery(), run as a microtask of the
\* task that resolved the promise: setupLightbox() over the .scroll-photo
\* images of the document, then setupHorizontalScroll().
SetupAfterPopulate(images) ==
    /\ phase' = "ready"
    /\ setupLightbox(images)
    /\ IF setupLightboxThrows
       THEN /\ initError' = TRUE          \* catch (error): console.error
            /\ UNCHANGED trackVars
       ELSE /\ setupHorizontalScroll
            /\ UNCHANGED initError
    /\ UNCHANGED <<lastEvent, touchVars, unhandledError>>

\* The handler stays suspended at the await.
StayAwaiting ==
    /\ phase' = "awaiting"
    /\ UNCHANGED <<errorVars, lightboxVars, trackVars>>

\* a promise that resolves with the first image (Promise.race)
populateResolvedOnFirst(images) == \E k \in 1..Len(images) : Settled(images[k])

\* Promise.all over the image promises resolves when every one has.
populateResolved(images) == AllSettled(images)

\* The DOMContentLoaded handler up to its await: the scroll listener is
\* attached and populateRandomGallery() runs. Without the container it returns
\* Promise.resolve(); with it, every selected photo is rendered and each image
\* is observed complete (cached) or not.
PageLoad(selections, cache) ==
    /\ phase = "loading"
    /\ IF ~containerPresent
       THEN /\ img' = <<>>
            /\ rendered' = <<>>
            /\ SetupAfterPopulate(<<>>)
       ELSE \E finalPhotos \in selections :
            \E complete \in [1..Len(finalPhotos) -> cache] :
                /\ rendered' = finalPhotos
                /\ img' = [k \in 1..Len(finalPhotos) |->
                              IF complete[k] THEN "complete" ELSE "pending"]
                /\ IF populateResolved(img')
                   THEN SetupAfterPopulate(finalPhotos)
                   ELSE StayAwaiting
    /\ UNCHANGED <<containerPresent, missing, dispatchVars, metricVars, effectVars,
                   countdownVars>>

\* With the scaled pools, each image cached or not.
DOMContentLoaded == PageLoad(Selections, BOOLEAN)

\* Image k fires load or error: its once-listener resolves its promise.
ImageEvent(k, outcome) ==
    /\ phase = "awaiting"
    /\ k \in 1..Len(img)
    /\ img[k] = "pending"
    /\ img' = [img EXCEPT ![k] = outcome]
    /\ IF populateResolved(img')
       THEN SetupAfterPopulate(rendered)
       ELSE StayAwaiting
    /\ UNCHANGED <<containerPresent, missing, rendered, dispatchVars, metricVars,
                   effectVars, countdownVars>>

ImageLoad(k) == ImageEvent(k, "loaded")

\* an error with no listener for it: the image's promise stays pending
ImageErrorUnheard(k) == ImageEvent(k, "failed")

\* The error listener resolves like the load listener.
ImageError(k) == ImageEvent(k, "errored")

\* ------------------------------------------------------- lightbox events
NoEvent ==
    [op |-> "none", arg |-> Num(0), active |-> FALSE, idx |-> Num(0), src |-> NoSrc]

\* An event whose listener setupLightbox attached runs its handler; op and arg
\* name the event.
LightboxEvent(handler, op, arg) ==
    /\ lightboxSetup
    /\ handler
    /\ lastEvent' = [op |-> op, arg |-> arg, active |-> lightboxActive,
                     idx |-> currentIndex, src |-> lightboxImgSrc]
    /\ UNCHANGED <<galleryVars, initError, dispatchVars, metricVars, trackVars,
                   effectVars, countdownVars>>

\* An event other than a touch.
PointerEvent(handler, op, arg) ==
    /\ LightboxEvent(handler, op, arg)
    /\ UNCHANGED touchVars

\* click on gallery image number index (0-based); the click listener is
\* attached to the images only where there is no touch support
ImageClick(index) ==
    /\ "image" \in listeners
    /\ ~isTouchDevice
    /\ index \in 0..(Len(imageSources) - 1)
    /\ PointerEvent(openLightbox(Num(index)), "open", Num(index))

CloseClick == "close" \in listeners /\ PointerEvent(closeLightbox, "close", Num(0))
PrevClick == "prev" \in listeners /\ PointerEvent(showPrevImage, "prev", Num(0))
NextClick == "next" \in listeners /\ PointerEvent(showNextImage, "next", Num(0))
\* click on the lightbox itself (e.target === lightbox)
BackdropClick ==
    "backdrop" \in listeners /\ PointerEvent(closeLightbox, "backdrop", Num(0))

Keys == {"ArrowRight", "ArrowLeft", "Escape", "Enter"}

\* the keydown listener without its first statement
keydownHandledAlways == TRUE

\* The keydown listener goes on past
\* if (!lightbox.classList.contains('active')) return.
keydownHandled == lightboxActive

\* A keydown event on the document.
KeyDown(key) ==
    /\ "keydown" \in listeners
    /\ PointerEvent(IF ~keydownHandled THEN NoHandler
                    ELSE CASE key = "ArrowRight" -> showNextImage
                           [] key = "ArrowLeft" -> showPrevImage
                           [] key = "Escape" -> closeLightbox
                           [] OTHER -> NoHandler,
                    key, Num(0))

\* ---------------------------------------------------------- touch events
\* Math.abs
Abs(n) == IF n < 0 THEN 0 - n ELSE n

\* The condition of handleTouchMove for the touch at <<x, y>>.
exceedsThreshold(x, y) ==
    Abs(x - startX) > TouchThreshold \/ Abs(y - startY) > TouchThreshold

\* handleTouchMove deciding from the touch's present position alone
draggingAfterMovePresent(x, y) == exceedsThreshold(x, y)

\* isDragging after handleTouchMove: once set it stays (if (isDragging) return).
draggingAfterMove(x, y) == isDragging \/ exceedsThreshold(x, y)

\* touchstart on gallery image number index at <<x, y>>, no touch being down:
\* handleTouchStart of that image.
TouchStart(index, x, y) ==
    /\ "image" \in listeners
    /\ isTouchDevice
    /\ touchTarget = 0 - 1
    /\ index \in 0..(Len(imageSources) - 1)
    /\ LightboxEvent(NoHandler, "touchstart", Num(index))
    /\ isDragging' = FALSE
    /\ startX' = x
    /\ startY' = y
    /\ touchTarget' = index
    /\ finger' = <<x, y>>
    /\ strayed' = FALSE
    /\ UNCHANGED isTouchDevice

\* The touch moves to <<x, y>>: handleTouchMove, listening on window.
TouchMove(x, y) ==
    /\ touchTarget # 0 - 1
    /\ <<x, y>> # finger
    /\ LightboxEvent(NoHandler, "touchmove", Num(touchTarget))
    /\ isDragging' = draggingAfterMove(x, y)
    /\ finger' = <<x, y>>
    /\ strayed' = (strayed \/ x - startX > 10 \/ startX - x > 10
                            \/ y - startY > 10 \/ startY - y > 10)
    /\ UNCHANGED <<isTouchDevice, touchTarget, startX, startY>>

\* The touch is lifted where it is: handleTouchEnd, then cleanupTouchListeners.
TouchEnd ==
    /\ touchTarget # 0 - 1
    /\ LightboxEvent(IF ~isDragging THEN openLightbox(Num(touchTarget))
                                    ELSE NoHandler,
                     "touchend", Num(touchTarget))
    /\ touchTarget' = 0 - 1
    /\ UNCHANGED <<isTouchDevice, startX, startY, isDragging, finger, strayed>>

\* The browser cancels the touch: handleTouchCancel.
TouchCancel ==
    /\ touchTarget # 0 - 1
    /\ LightboxEvent(NoHandler, "touchcancel", Num(touchTarget))
    /\ touchTarget' = 0 - 1
    /\ UNCHANGED <<isTouchDevice, startX, startY, isDragging, finger, strayed>>

\* ------------------------------------------------------- countdown ticker
\* Milliseconds: 1000, 1000 * 60, 1000 * 60 * 60, 1000 * 60 * 60 * 24.
Second == 1000
Minute == Second * 60
Hour == Minute * 60
Day == Hour * 24

\* Math.floor(a / b) for b > 0
FloorDiv(a, b) == a \div b

\* a % b for b > 0: the result has the sign of a
Rem(a, b) == IF a >= 0 THEN a % b ELSE 0 - ((0 - a) % b)

\* the breakdown with the hours taken from the whole distance
BreakdownTotalHours(distance) ==
    [days |-> FloorDiv(distance, Day),
     hours |-> FloorDiv(distance, Hour),
     minutes |-> FloorDiv(Rem(distance, Hour), Minute),
     seconds |-> FloorDiv(Rem(distance, Minute), Second)]

\* The four numbers a tick writes for distance = weddingDate - now.
Breakdown(distance) ==
    [days |-> FloorDiv(distance, Day),
     hours |-> FloorDiv(Rem(distance, Day), Hour),
     minutes |-> FloorDiv(Rem(distance, Hour), Minute),
     seconds |-> FloorDiv(Rem(distance, Minute), Second)]

\* the callback without its clearInterval(x)
activeAfterClearForgotten == TRUE

\* Whether the interval still fires once the callback has called clearInterval(x).
activeAfterClear == FALSE

Count(n) == IF n < MaxTicks THEN n + 1 ELSE n

\* One run of the setInterval callback, the clock reading now being
\* weddingDate - distance. The target instant exceeds the model checker's integers,
\* so a reading is given by its distance to the target.
Tick(distance) ==
    /\ timerActive
    /\ lastDistance' = distance
    /\ slots' = Breakdown(distance)
    /\ ticksRun' = Count(ticksRun)
    /\ expiredSeen' = (expiredSeen \/ distance < 0)
    /\ ticksAfterExpiry' =
           IF expiredSeen THEN Count(ticksAfterExpiry) ELSE ticksAfterExpiry
    /\ IF distance < 0
       THEN /\ timerActive' = activeAfterClear
            /\ timerDisplay' = "expired"
            /\ expiredWrites' = Count(expiredWrites)
       ELSE UNCHANGED <<timerActive, timerDisplay, expiredWrites>>
    /\ UNCHANGED <<galleryVars, errorVars, lightboxVars, dispatchVars, metricVars,
                   trackVars, effectVars>>

\* ------------------------------------------------------------------ page
vars == <<galleryVars, errorVars, lightboxVars, dispatchVars, metricVars, trackVars, effectVars,
          countdownVars>>

UnsetTrack ==
    [distance |-> 0, height |-> Unset, position |-> "", top |-> "", transform |-> Unset]

\* The closure variables of the touch handlers before any touch.
TouchInit ==
    /\ touchTarget = 0 - 1
    /\ startX = 0
    /\ startY = 0
    /\ isDragging = FALSE
    /\ finger = <<0, 0>>
    /\ strayed = FALSE

\* The countdown when setInterval has been called.
CountdownInit ==
    /\ timerActive = TRUE
    /\ slots = [days |-> 0, hours |-> 0, minutes |-> 0, seconds |-> 0]
    /\ timerDisplay = "slots"
    /\ lastDistance = 0
    /\ ticksRun = 0
    /\ expiredSeen = FALSE
    /\ expiredWrites = 0
    /\ ticksAfterExpiry = 0

\* The state when the script has run and DOMContentLoaded has not fired yet,
\* in a document that lacks the elements absent.
PageLoading(absent) ==
    /\ phase = "loading"
    /\ containerPresent \in BOOLEAN
    /\ missing = absent
    /\ initError = FALSE
    /\ unhandledError = FALSE
    /\ img = <<>>
    /\ rendered = <<>>
    /\ lightboxSetup = FALSE
    /\ listeners = {}
    /\ imageSources = <<>>
    /\ currentIndex = Num(0)
    /\ lightboxActive = FALSE
    /\ lightboxImgSrc = NoSrc
    /\ lastEvent = NoEvent
    /\ isTouchDevice = FALSE
    /\ TouchInit
    /\ isTicking = FALSE
    /\ updateDue = FALSE
    /\ frameQueue = 0
    /\ scrollY = 0
    /\ innerWidth = MOBILE_BREAKPOINT + 1
    /\ scrollWidth = MaxWidth
    /\ clientWidth = 1
    /\ offsetTop = 0
    /\ trackSetup = "none"
    /\ horizontalScrollDistance = 0
    /\ sectionHeight = Unset
    /\ containerPosition = ""
    /\ containerTop = ""
    /\ innerTransform = Unset
    /\ recomputed = <<0, 0>>
    /\ navbarScrolled = FALSE
    /\ heroBackground = Unset
    /\ countdownBackground = Unset
    /\ CountdownInit

\* A document with every element but, possibly, .photo-scroll-inner.
Init == PageLoading({})

\* Page load: the initialization chain, with scroll events and animation
\* frames arriving at any time.
Next ==
    \/ DOMContentLoaded
    \/ \E k \in 1..Len(img) : ImageLoad(k)
    \/ \E k \in 1..Len(img) : ImageError(k)
    \/ \E y \in {0, MaxScroll} : Scroll(y)
    \/ Frame
    \/ ResizeObserved

Spec == Init /\ [][Next]_vars

\* Every pending image fires load or error in the end (the premise of the
\* initialization's progress), and a requested frame runs.
FairSpec ==
    /\ Spec
    /\ \A k \in 1..(2 * TakeCount) : WF_vars(ImageLoad(k) \/ ImageError(k))
    /\ WF_vars(Frame)

\* ------------------------------------------- documents lacking an element
\* Documents complete or lacking one of the elements.
MissingSamples == {{}} \cup {{e} : e \in Elements}

InitMissing == \E absent \in MissingSamples : PageLoading(absent)

NextMissing ==
    \/ Next
    \/ \E index \in 0..(Len(imageSources) - 1) : ImageClick(index)
    \/ CloseClick

SpecMissing == InitMissing /\ [][NextMissing]_vars

FairMissing ==
    /\ SpecMissing
    /\ \A k \in 1..(2 * TakeCount) : WF_vars(ImageLoad(k) \/ ImageError(k))
    /\ WF_vars(Frame)

\* ------------------------------------------ page load with the track unset
\* Documents in which the track setup runs, aborts (a track element is
\* absent) or is never reached (a lightbox control is absent).
UnreadySamples == {{}, {"gallerySection"}, {"photoScrollContainer"}, {"closeBtn"}}

InitUnready == \E absent \in UnreadySamples : PageLoading(absent)

SpecUnready == InitUnready /\ [][Next]_vars

\* --------------------------------------------- the selection on its own
\* The page loads with the container present, pools that fill the slice and
\* no image in the cache.
InitPopulate == Init /\ containerPresent

NextPopulate == PageLoad(SelectionsOf(FullHorizontal, FullVertical), {FALSE})

SpecPopulate == InitPopulate /\ [][NextPopulate]_vars

\* ------------------------------------------------ the lightbox in use
\* The page once the initialization chain has run: with the container, some
\* selection is rendered and loaded and both setups have run; without it, the
\* lightbox is bound to no image and the track setup has aborted.
PageReady(touchSupport) ==
    /\ phase = "ready"
    /\ containerPresent \in BOOLEAN
    /\ missing = {}
    /\ initError = FALSE
    /\ unhandledError = FALSE
    /\ rendered \in (IF containerPresent THEN Selections ELSE {<<>>})
    /\ img = [k \in 1..Len(rendered) |-> "loaded"]
    /\ lightboxSetup = TRUE
    /\ listeners = {"image", "close", "prev", "next", "backdrop", "keydown"}
    /\ imageSources = rendered
    /\ currentIndex = Num(0)
    /\ lightboxActive = FALSE
    /\ lightboxImgSrc = NoSrc
    /\ lastEvent = NoEvent
    /\ isTouchDevice = touchSupport
    /\ TouchInit
    /\ isTicking = FALSE
    /\ updateDue = FALSE
    /\ frameQueue = 0
    /\ scrollY = 0
    /\ innerWidth = MOBILE_BREAKPOINT + 1
    /\ scrollWidth = MaxWidth
    /\ clientWidth = 1
    /\ offsetTop = 0
    /\ trackSetup = (IF containerPresent THEN "ready" ELSE "aborted")
    /\ LET s == IF containerPresent
                THEN updateDimensions(UnsetTrack, innerWidth, scrollWidth, clientWidth)
                ELSE UnsetTrack
       IN  /\ horizontalScrollDistance = s.distance
           /\ sectionHeight = s.height
           /\ containerPosition = s.position
           /\ containerTop = s.top
           /\ innerTransform = s.transform
    /\ recomputed = (IF trackSetup = "ready" THEN <<scrollWidth, clientWidth>> ELSE <<0, 0>>)
    /\ navbarScrolled = FALSE
    /\ heroBackground = Unset
    /\ countdownBackground = Unset
    /\ CountdownInit

InitLightbox == PageReady(FALSE)

NextLightbox ==
    \/ \E index \in 0..(Len(imageSources) - 1) : ImageClick(index)
    \/ CloseClick
    \/ PrevClick
    \/ NextClick
    \/ BackdropClick
    \/ \E key \in Keys : KeyDown(key)
    \/ \E y \in {0, MaxScroll} : Scroll(y)
    \/ Frame
    \/ ResizeObserved

SpecLightbox == InitLightbox /\ [][NextLightbox]_vars

\* ------------------------------------------- the lightbox's open, called directly
\* openLightbox(index) for any index, as a caller other than the image
\* listeners would call it.
OpenArgs == {Num(i) : i \in (0 - 1)..(Len(imageSources) + 1)} \cup {NaN}

OpenCall(index) ==
    "image" \in listeners /\ PointerEvent(openLightbox(index), "open", index)

NextOpen ==
    \/ NextLightbox
    \/ \E index \in OpenArgs : OpenCall(index)

SpecOpen == InitLightbox /\ [][NextOpen]_vars

\* ------------------------------------------------ the lightbox under touch
\* Touch positions: the scenario's start and end, and positions at, within and
\* beyond the threshold from the start.
TouchXs == {89, 100, 110, 111, 150}
TouchYs == {100, 111}

InitTouch == PageReady(TRUE)

NextTouch ==
    \/ \E index \in 0..(Len(imageSources) - 1) :
           TouchStart(index, 100, 100)
    \/ \E x \in TouchXs, y \in TouchYs : TouchMove(x, y)
    \/ TouchEnd
    \/ TouchCancel
    \/ CloseClick
    \/ NextClick

SpecTouch == InitTouch /\ [][NextTouch]_vars

\* ------------------------------------------------- the track on its own
WidthSamples == {MOBILE_BREAKPOINT, MOBILE_BREAKPOINT + 1}
\* <<scrollWidth, clientWidth>>: overflow from -1 up, and the scenario 2000, 800
MetricSamples == {<<sw, 1>> : sw \in 0..MaxWidth} \cup {<<2000, 800>>}
TopSamples == 0..MaxTop
ScrollSamples == 0..MaxScroll \cup {2500}

\* The page once the initialization chain has run with every element present:
\* setupHorizontalScroll() has made its initial updateDimensions() call.
InitTrack ==
    /\ phase = "ready"
    /\ containerPresent = TRUE
    /\ missing = {}
    /\ initError = FALSE
    /\ unhandledError = FALSE
    /\ rendered = CHOOSE finalPhotos \in Selections : TRUE
    /\ img = [k \in 1..Len(rendered) |-> "complete"]
    /\ lightboxSetup = TRUE
    /\ listeners = {"image", "close", "prev", "next", "backdrop", "keydown"}
    /\ imageSources = rendered
    /\ currentIndex = Num(0)
    /\ lightboxActive = FALSE
    /\ lightboxImgSrc = NoSrc
    /\ lastEvent = NoEvent
    /\ isTouchDevice = FALSE
    /\ TouchInit
    /\ isTicking = FALSE
    /\ updateDue = FALSE
    /\ frameQueue = 0
    /\ scrollY = 0
    /\ innerWidth \in WidthSamples
    /\ \E m \in MetricSamples : scrollWidth = m[1] /\ clientWidth = m[2]
    /\ offsetTop \in TopSamples
    /\ trackSetup = "ready"
    /\ LET s == updateDimensions(UnsetTrack, innerWidth, scrollWidth, clientWidth)
       IN  /\ horizontalScrollDistance = s.distance
           /\ sectionHeight = s.height
           /\ containerPosition = s.position
           /\ containerTop = s.top
           /\ innerTransform = s.transform
    /\ recomputed = (IF trackSetup = "ready" THEN <<scrollWidth, clientWidth>> ELSE <<0, 0>>)
    /\ navbarScrolled = FALSE
    /\ heroBackground = Unset
    /\ countdownBackground = Unset
    /\ CountdownInit

NextTrack ==
    \/ \E width \in WidthSamples, m \in MetricSamples, top \in TopSamples :
           MetricsChange(width, m, top)
    \/ ResizeObserved
    \/ \E y \in ScrollSamples : Scroll(y)
    \/ Frame

SpecTrack == InitTrack /\ [][NextTrack]_vars

\* ---------------------------------------------- the countdown on its own
\* Distances to the target a tick can read: up to MaxDays days before it, at and
\* around the unit boundaries, and after it.
DistanceSamples ==
    {d * Day + h * Hour + m * Minute + sec * Second + ms :
        d \in 0..MaxDays, h \in {0, 2, 23}, m \in {0, 3, 59},
        sec \in {0, 4, 59}, ms \in {0, 999}}
    \cup {0 - 1, 0 - Second, 0 - (Day + 1)}

NextCountdown == \E distance \in DistanceSamples : Tick(distance)

SpecCountdown == Init /\ [][NextCountdown]_vars

\* =================================================================== claims
\* index is an index of imageSources: 0 <= index < N
InRange(index) == ~index.nan /\ index.v >= 0 /\ index.v < Len(imageSources)

\* C1: whenever the lightbox is open, 0 <= currentIndex < N, after any sequence
\* of image clicks, next, prev and close events from the keyboard or the
\* controls, in any lightbox state.
C1_IndexInRange == lightboxActive => InRange(currentIndex)

\* C1's case: the lightbox is open on the last of at least three images after a
\* control or key event.
C1_Witness ==
    /\ lightboxActive
    /\ Len(imageSources) >= 3
    /\ currentIndex = Num(Len(imageSources) - 1)
    /\ lastEvent.op \in {"prev", "next", "ArrowLeft", "ArrowRight"}

\* C2: openLightbox(i) with i outside [0, N) leaves isOpen, currentIndex and the
\* displayed image source as they were before the call.
C2_RejectedOpenUnchanged ==
    (lastEvent.op = "open" /\ ~InRange(lastEvent.arg)) =>
        /\ lightboxActive = lastEvent.active
        /\ currentIndex = lastEvent.idx
        /\ lightboxImgSrc = lastEvent.src

\* C3: with N >= 1 images and the lightbox open at i, next (control or
\* ArrowRight) leaves it open at (i + 1) mod N and prev (control or ArrowLeft)
\* at (i - 1 + N) mod N, showing the image at the new index.
C3_NavigationWraps ==
    LET N == Len(imageSources)
        i == lastEvent.idx.v
        OpenAt(j) ==
            /\ lightboxActive
            /\ currentIndex = Num(j)
            /\ lightboxImgSrc = imageSources[j + 1]
    IN  (N >= 1 /\ lastEvent.active /\ ~lastEvent.idx.nan) =>
            /\ lastEvent.op \in {"next", "ArrowRight"} => OpenAt((i + 1) % N)
            /\ lastEvent.op \in {"prev", "ArrowLeft"} => OpenAt((i - 1 + N) % N)

\* C3's case: next from the last of at least three images has wrapped to 0.
C3_Witness ==
    /\ Len(imageSources) >= 3
    /\ lastEvent.op = "next"
    /\ lastEvent.active
    /\ lastEvent.idx = Num(Len(imageSources) - 1)
    /\ currentIndex = Num(0)
    /\ lightboxImgSrc = imageSources[1]

\* Either setup function has run.
SetupRan == lightboxSetup \/ trackSetup # "none"

\* C4: setupLightbox and setupHorizontalScroll never run before populate has
\* completed: with the container, every selected photo is rendered and every
\* rendered image is complete, loaded or errored, whatever scroll events and
\* frames interleave with the image events.
C4_SetupAfterPopulate ==
    SetupRan =>
        /\ phase = "ready"
        /\ lightboxSetup /\ trackSetup # "none"
        /\ containerPresent =>
            /\ rendered \in Selections
            /\ Len(img) = Len(rendered)
            /\ \A k \in 1..Len(img) : img[k] \in {"complete", "loaded", "errored"}

\* C4's case: both setups have run after a load, an error and a cached image,
\* with a frame requested by a scroll event still to run.
C4_Witness ==
    /\ lightboxSetup
    /\ trackSetup = "ready"
    /\ \E k \in 1..Len(img) : img[k] = "loaded"
    /\ \E k \in 1..Len(img) : img[k] = "errored"
    /\ \E k \in 1..Len(img) : img[k] = "complete"
    /\ framePending

\* C5: once DOMContentLoaded has fired, if every rendered image fires load or
\* error (or was complete), populate's promise resolves and both setups run in
\* the end, for every combination of outcomes; without the container the
\* handler never waits.
C5_SetupEventuallyRuns ==
    /\ [](~containerPresent => phase # "awaiting")
    /\ (phase # "loading") ~> (phase = "ready" /\ lightboxSetup /\ trackSetup # "none")

\* C5's case: every rendered image has errored and both setups have run.
C5_Witness ==
    /\ containerPresent
    /\ Len(img) >= 2
    /\ \A k \in 1..Len(img) : img[k] = "errored"
    /\ phase = "ready"
    /\ lightboxSetup
    /\ trackSetup = "ready"

\* C6: a frame update that runs with the effect active (viewport above 768,
\* overflow distance above 0) leaves the strip translated by
\* min(max(scrollY - sectionTop, 0), overflowDistance), for every scroll offset
\* and section top.
C6_TrackClamp ==
    [][(framePending /\ ~framePending' /\ trackSetup = "ready"
            /\ innerWidth > MOBILE_BREAKPOINT /\ horizontalScrollDistance > 0) =>
        /\ innerTransform' =
               TranslateX(Min(Max(scrollY - offsetTop, 0), horizontalScrollDistance))
        /\ innerTransform'[2] \in 0..horizontalScrollDistance]_vars

\* C6's case: frames have pinned the strip to the end of the 1200px track of
\* the scenario, the page being scrolled past it.
C6_Witness ==
    /\ ~framePending
    /\ innerWidth > MOBILE_BREAKPOINT
    /\ horizontalScrollDistance = 1200
    /\ scrollY - offsetTop > 1200
    /\ innerTransform = TranslateX(1200)
    /\ heroBackground = Parallax(scrollY * 5)

\* The layout is static: section height automatic, container in normal flow,
\* strip not translated (an inline property never set leaves the stylesheet's).
StaticLayout(s) ==
    /\ s.height \in {Unset, Auto}
    /\ s.position \in {"", "relative"}
    /\ s.transform \in {Unset, TranslateX(0)}

\* C7: with a viewport of 768 or less, update changes nothing of the track for
\* any scroll offset, and recompute leaves a static layout and overflow
\* distance 0, whatever layout and distance held before.
C7_NarrowViewportDisables ==
    innerWidth <= MOBILE_BREAKPOINT =>
        /\ \A y \in ScrollSamples, top \in TopSamples :
               updateHorizontalScroll(TrackState, trackSetup # "none", innerWidth, y, top)
                   = innerTransform
        /\ LET r == updateDimensions(TrackState, innerWidth, scrollWidth, clientWidth)
           IN  StaticLayout(r) /\ r.distance = 0

\* C7's case: on a narrow viewport recompute has reset a track that was
\* sticky, and a frame has run at a scroll offset inside the former track
\* without translating the strip.
C7_Witness ==
    /\ innerWidth <= MOBILE_BREAKPOINT
    /\ horizontalScrollDistance = 0
    /\ sectionHeight = Auto
    /\ containerPosition = "relative"
    /\ containerTop = "0"
    /\ innerTransform = TranslateX(0)
    /\ scrollY - offsetTop > 0
    /\ ~framePending
    /\ heroBackground = Parallax(scrollY * 5)
    /\ countdownBackground = Centered

C9_RecomputeIdempotent ==
    \A width \in WidthSamples, m \in MetricSamples :
        LET once == updateDimensions(TrackState, width, m[1], m[2])
        IN  updateDimensions(once, width, m[1], m[2]) = once

\* C9's case: recompute has run on a translated strip and running it again
\* changes nothing.
C9_Witness ==
    /\ innerTransform[2] > 0
    /\ horizontalScrollDistance > 0
    /\ horizontalScrollDistance = scrollWidth - clientWidth
    /\ updateDimensions(TrackState, innerWidth, scrollWidth, clientWidth) = TrackState

\* C10: once a tick has seen distance < 0 the timer is stopped, no later tick
\* runs (so none writes the slots again), and the expired message has been
\* written exactly once, whatever the clock readings were.
C10_CountdownTerminal ==
    /\ ticksAfterExpiry = 0
    /\ expiredWrites <= 1
    /\ expiredSeen =>
        /\ ~timerActive
        /\ expiredWrites = 1
        /\ timerDisplay = "expired"
        /\ lastDistance < 0

\* C10's case: the timer has expired after ticks that showed numbers.
C10_Witness ==
    /\ expiredSeen
    /\ ticksRun >= 2
    /\ ~timerActive
    /\ timerDisplay = "expired"

\* C11: a tick that reads r >= 0 milliseconds to the target displays
\* days = r div 86400000, hours = (r mod 86400000) div 3600000,
\* minutes = (r mod 3600000) div 60000, seconds = (r mod 60000) div 1000, so
\* hours < 24, minutes < 60, seconds < 60 and
\* days*86400 + hours*3600 + minutes*60 + seconds = r div 1000.
C11_CountdownDecomposition ==
    (ticksRun > 0 /\ lastDistance >= 0) =>
        LET r == lastDistance
        IN  /\ slots.days = r \div 86400000
            /\ slots.hours = (r % 86400000) \div 3600000
            /\ slots.minutes = (r % 3600000) \div 60000
            /\ slots.seconds = (r % 60000) \div 1000
            /\ slots.days >= 0
            /\ slots.hours \in 0..23
            /\ slots.minutes \in 0..59
            /\ slots.seconds \in 0..59
            /\ slots.days * 86400 + slots.hours * 3600 + slots.minutes * 60
                   + slots.seconds = r \div 1000

\* C11's case: the scenario, a tick 1 day 2 h 3 min 4 s before the target
\* displays 1, 2, 3, 4.
C11_Witness ==
    /\ ticksRun > 0
    /\ lastDistance = 86400000 + 2 * 3600000 + 3 * 60000 + 4 * 1000
    /\ slots = [days |-> 1, hours |-> 2, minutes |-> 3, seconds |-> 4]

\* C12 as stated: a touch gesture on image k that ends within 10px of its start
\* in both axes opens the lightbox at k, and one that ends more than 10px from
\* its start in either axis performs no open.
C12_TapVersusDrag ==
    lastEvent.op = "touchend" =>
        LET k == lastEvent.arg.v
            within == /\ finger[1] - startX \in (0 - 10)..10
                      /\ finger[2] - startY \in (0 - 10)..10
        IN  /\ within => /\ lightboxActive
                          /\ currentIndex = Num(k)
                          /\ lightboxImgSrc = imageSources[k + 1]
            /\ ~within => /\ lightboxActive = lastEvent.active
                           /\ currentIndex = lastEvent.idx
                           /\ lightboxImgSrc = lastEvent.src

\* C12 amended: a touch gesture on image k none of whose touchmove positions is
\* more than 10px from its start in either axis opens the lightbox at k on
\* touchend; a gesture one of whose touchmove positions is more than 10px from
\* its start performs no open, wherever it ends.
C12_TapUnlessStrayed ==
    lastEvent.op = "touchend" =>
        LET k == lastEvent.arg.v
        IN  /\ ~strayed => /\ lightboxActive
                            /\ currentIndex = Num(k)
                            /\ lightboxImgSrc = imageSources[k + 1]
            /\ strayed => /\ lightboxActive = lastEvent.active
                           /\ currentIndex = lastEvent.idx
                           /\ lightboxImgSrc = lastEvent.src

\* C12's case: a touch on the second image went 50px away, came back to where
\* it started and was lifted there, and the lightbox has stayed closed.
C12_Witness ==
    /\ lastEvent.op = "touchend"
    /\ lastEvent.arg = Num(1)
    /\ strayed
    /\ finger = <<startX, startY>>
    /\ ~lightboxActive

\* C13: whatever the random draws, the selection has at most 10 entries,
\* alternates orientation from a horizontal first entry (0-based even positions
\* horizontal, odd positions vertical), repeats no horizontal and no vertical
\* path, and takes every entry from the pool of its orientation.
C13_SelectionShape ==
    phase # "loading" =>
        /\ Len(rendered) <= 10
        /\ \A k \in 1..Len(rendered) :
               /\ rendered[k][1] =
                      (IF (k - 1) % 2 = 0 THEN "photos/horizontal" ELSE "photos/vertical")
               /\ rendered[k][2] \in
                      (IF rendered[k][1] = "photos/horizontal"
                       THEN 1..FullHorizontal ELSE 1..FullVertical)
        /\ \A k, l \in 1..Len(rendered) : rendered[k] = rendered[l] => k = l

\* C13's case: ten photos are rendered, the shuffles having brought the last
\* horizontal and the third vertical photo to the front.
C13_Witness ==
    /\ phase = "awaiting"
    /\ Len(rendered) = 10
    /\ rendered[1] = <<"photos/horizontal", FullHorizontal>>
    /\ rendered[2] = <<"photos/vertical", 3>>

\* C14: whatever scroll events and frames interleave, at most one frame update
\* is queued at any time; a frame that runs takes one update off the queue and
\* performs the navbar, parallax and track update for the scroll offset it
\* finds, and these effects change in no other step.
C14_ScrollCoalescing ==
    /\ [](frameQueue \in {0, 1})
    /\ [][(frameQueue' < frameQueue =>
               /\ frameQueue' = frameQueue - 1
               /\ navbarScrolled' = (scrollY > 50)
               /\ heroBackground' = <<"center calc(50% + px)", scrollY * 5>>
               /\ countdownBackground' =
                      (IF innerWidth > 768 THEN <<"center calc(50% + px)", scrollY * 3>>
                       ELSE <<"center center", 0>>)
               /\ innerTransform' =
                      updateHorizontalScroll(TrackState, TRUE, innerWidth, scrollY, offsetTop))
           /\ (effectVars' # effectVars => frameQueue' = frameQueue - 1)]_vars

\* C14's case: an update has run far down the page, and a scroll back to the
\* top has queued the next one, which has not run yet.
C14_Witness ==
    /\ frameQueue = 1
    /\ isTicking
    /\ navbarScrolled
    /\ scrollY = 0

\* C15: when the three track elements are present, whichever other element is
\* absent (the lightbox root, image slot, close, prev or next control among
\* them), the track setup has run once the initialization chain has finished.
\* (The chain's own errors all end in its catch block.)
C15_MissingLightboxIsolated ==
    (phase = "ready" /\ containerPresent /\ Has("gallerySection")
        /\ Has("photoScrollContainer")) => trackSetup = "ready"

\* C16: whichever of the navbar, hero and countdown elements the document has,
\* the ticking flag is false whenever no frame update is queued, and every
\* scroll event heard is followed in the end by an update that runs after it.
C16_GuardCleared ==
    /\ [](frameQueue = 0 => ~isTicking)
    /\ updateDue ~> ~updateDue

\* C17: in every state reached by recomputes and updates in any order, once the
\* track is set up the strip's translation is within
\* [0, max(scrollWidth - containerWidth, 0)] for the metrics of the most recent
\* recompute.
C17_NeverOvertranslates ==
    trackSetup = "ready" =>
        innerTransform[2] \in 0..Max(recomputed[1] - recomputed[2], 0)

\* C18 as stated: the overflow distance held is never negative; a recompute
\* above the threshold leaves max(scrollWidth - containerWidth, 0) and one at
\* or below it leaves 0.
C18_DistanceNonNegative ==
    /\ horizontalScrollDistance >= 0
    /\ updateDimensions(TrackState, innerWidth, scrollWidth, clientWidth).distance
           = (IF innerWidth > 768
              THEN (IF scrollWidth - clientWidth > 0 THEN scrollWidth - clientWidth ELSE 0)
              ELSE 0)

\* C18 amended: a recompute above the threshold leaves
\* scrollWidth - containerWidth as the overflow distance, negative when the
\* strip is narrower than its container, and one at or below the threshold
\* leaves 0; the distance held is always one of the two for the metrics of
\* the last recompute, and while it is zero or negative an update leaves the
\* strip as it is.
C18_DistanceIsOverflow ==
    /\ updateDimensions(TrackState, innerWidth, scrollWidth, clientWidth).distance
           = (IF innerWidth > 768 THEN scrollWidth - clientWidth ELSE 0)
    /\ horizontalScrollDistance \in {0, recomputed[1] - recomputed[2]}
    /\ horizontalScrollDistance <= 0 =>
           \A y \in ScrollSamples, top \in TopSamples :
               updateHorizontalScroll(TrackState, TRUE, innerWidth, y, top) = innerTransform

\* C18's case: above the threshold a recompute has found the strip one pixel
\* narrower than its container and holds -1, and a frame update has run since
\* without moving the strip.
C18_Witness ==
    /\ innerWidth > 768
    /\ recomputed = <<0, 1>>
    /\ horizontalScrollDistance = 0 - 1
    /\ scrollY > offsetTop
    /\ heroBackground = Parallax(scrollY * 5)
    /\ frameQueue = 0
    /\ innerTransform = Unset

\* C19: while the lightbox is closed, an ArrowRight, ArrowLeft or Escape key
\* event leaves isOpen, currentIndex and the displayed image source as they
\* were; while it is open, ArrowRight performs next, ArrowLeft prev and Escape
\* close.
C19_KeyboardGated ==
    LET N == Len(imageSources)
        i == lastEvent.idx.v
        Same(active) ==
            /\ lightboxActive = active
            /\ currentIndex = lastEvent.idx
            /\ lightboxImgSrc = lastEvent.src
        At_(j) ==
            /\ lightboxActive
            /\ currentIndex = Num(j)
            /\ lightboxImgSrc = imageSources[j + 1]
    IN  lastEvent.op \in {"ArrowRight", "ArrowLeft", "Escape"} =>
            IF ~lastEvent.active THEN Same(FALSE)
            ELSE CASE lastEvent.op = "ArrowRight" -> At_((i + 1) % N)
                   [] lastEvent.op = "ArrowLeft" -> At_((i - 1 + N) % N)
                   [] lastEvent.op = "Escape" -> Same(FALSE)

\* C19's case: with the lightbox closed after showing the second image, an
\* ArrowRight has changed nothing.
C19_Witness ==
    /\ lastEvent.op = "ArrowRight"
    /\ ~lastEvent.active
    /\ ~lightboxActive
    /\ currentIndex = Num(1)
    /\ lightboxImgSrc = imageSources[2]

\* C20: a frame update that runs while the track is not set up (the images are
\* still loading, the setup aborted for a missing element, or it was never
\* reached) leaves the strip transform, the section height and the container
\* position as they were and throws nothing.
C20_FrameBeforeSetupNoOp ==
    [][(frameQueue' < frameQueue /\ trackSetup # "ready") =>
        /\ innerTransform' = innerTransform
        /\ sectionHeight' = sectionHeight
        /\ containerPosition' = containerPosition
        /\ unhandledError' = unhandledError]_vars

\* C20's case: while images are still loading a frame update has run for a
\* scroll offset down the page, and the track is untouched.
C20_Witness ==
    /\ phase = "awaiting"
    /\ trackSetup = "none"
    /\ frameQueue = 0
    /\ scrollY = MaxScroll
    /\ heroBackground = Parallax(scrollY * 5)
    /\ innerTransform = Unset
    /\ sectionHeight = Unset
    /\ containerPosition = ""
    /\ ~unhandledError

====
